---- MODULE Spec2Model ----
(***************************************************************************)
(* A model of the memcache client of src/memcache/memcache.go: the key     *)
(* validator, the per-address pool of idle connections, dial with timeout, *)
(* the single-key operations and their response classification, and the   *)
(* fan-out of GetMulti.                                                    *)
(*                                                                         *)
(* Byte strings are sequences of numbers 0..255.  An error value is a pair *)
(* <<kind, address>> of strings; the nil error is Nil.                     *)
(***************************************************************************)
EXTENDS Integers, Sequences, FiniteSets, TLC

(***************************************************************************)
(* Bounds of the model.                                                    *)
(***************************************************************************)
\* Number of invocations of a public single-key operation in one behaviour;
\* each invocation is one task (goroutine) that runs one operation.
NumCalls == 3
MaxBuckets == 10
FrameCalls == 2
\* The number of calls one caller makes in a row against one server.
MaxOps == 4

(***************************************************************************)
(* Program constants.                                                      *)
(***************************************************************************)
buffered == 8
maxIdleConnsPerAddr == 2

crlf == <<13, 10>>
space == <<32>>
resultStored == <<83, 84, 79, 82, 69, 68, 13, 10>>
resultNotStored == <<78, 79, 84, 95, 83, 84, 79, 82, 69, 68, 13, 10>>
resultExists == <<69, 88, 73, 83, 84, 83, 13, 10>>
resultNotFound == <<78, 79, 84, 95, 70, 79, 85, 78, 68, 13, 10>>
resultDeleted == <<68, 69, 76, 69, 84, 69, 68, 13, 10>>
resultEnd == <<69, 78, 68, 13, 10>>
resultClientErrorPrefix == <<67, 76, 73, 69, 78, 84, 95, 69, 82, 82, 79, 82, 32>>

(***************************************************************************)
(* Errors.                                                                 *)
(***************************************************************************)
Nil == <<"nil", "">>
ErrCacheMiss == <<"ErrCacheMiss", "">>
ErrCASConflict == <<"ErrCASConflict", "">>
ErrNotStored == <<"ErrNotStored", "">>
ErrMalformedKey == <<"ErrMalformedKey", "">>
ErrNoServers == <<"ErrNoServers", "">>
ConnectTimeoutError(addr) == <<"ConnectTimeoutError", addr>>

\* Errors made on the spot (fmt.Errorf, errors.New) or by the standard
\* library; none of them is one of the package's error variables.
ErrUnexpectedLine == <<"unexpected response line", "">>
ErrCorruptGet == <<"corrupt get result read", "">>
ErrClientError == <<"client error", "">>
ErrParseUint == <<"strconv.ParseUint", "">>
ErrDial == <<"net.Dial error", "">>
ErrIO(kind) == <<kind, "">>


resumableError(err) ==
    err \in {ErrCacheMiss, ErrCASConflict, ErrNotStored, ErrMalformedKey}

(***************************************************************************)
(* Keys.                                                                   *)
(***************************************************************************)

legalKey(key) ==
    /\ ~(Len(key) > 250)
    /\ \A i \in 1..Len(key) : ~(key[i] <= 32 \/ key[i] > 126)

Rep(n, b) == [i \in 1..n |-> b]

\* "a", "a b", "" and 251 times "a"
keyA == <<97>>
keySpace == <<97, 32, 98>>
keyEmpty == <<>>
keyB == <<98>>
keyLong == Rep(251, 97)
(***************************************************************************)
(* The read side of a connection (bufio.Reader over net.Conn).  A stream   *)
(* is what the server sends in answer to one request: its bytes, and how   *)
(* the stream ends after them ("EOF": the peer closed; "timeout": nothing  *)
(* more arrives before the deadline).                                      *)
(***************************************************************************)
Min(a, b) == IF a < b THEN a ELSE b

Drop(s, n) == SubSeq(s, n + 1, Len(s))

HasPrefix(s, p) == Len(s) >= Len(p) /\ SubSeq(s, 1, Len(p)) = p

HasSuffix(s, p) == Len(s) >= Len(p) /\ SubSeq(s, Len(s) - Len(p) + 1, Len(s)) = p

\* Number of space bytes of line: bytes.Count(line, space).
CountSpaces(line) == Cardinality({i \in 1..Len(line) : line[i] = 32})

\* Index of the first line feed of b, 0 if it has none.
IndexLF(b) ==
    IF \E i \in 1..Len(b) : b[i] = 10
    THEN CHOOSE i \in 1..Len(b) : b[i] = 10 /\ \A j \in 1..(i - 1) : b[j] # 10
    ELSE 0

\* r.ReadSlice('\n'): the bytes up to and including the first line feed, or
\* the error that ends the stream.
ReadSlice(in) ==
    LET i == IndexLF(in.bytes)
    IN  IF i > 0
        THEN [line |-> SubSeq(in.bytes, 1, i), err |-> Nil,
              rest |-> [in EXCEPT !.bytes = Drop(in.bytes, i)]]
        ELSE [line |-> in.bytes, err |-> ErrIO(in.end),
              rest |-> [in EXCEPT !.bytes = <<>>]]

\* ioutil.ReadAll(io.LimitReader(r, n)): up to n bytes; the end of the stream
\* is no error for ReadAll, a timeout is.
ReadAllLimit(in, n) ==
    LET k == Min(n, Len(in.bytes))
    IN  [data |-> SubSeq(in.bytes, 1, k),
         err |-> IF k < n /\ in.end # "EOF" THEN ErrIO(in.end) ELSE Nil,
         rest |-> [in EXCEPT !.bytes = Drop(in.bytes, k)]]

(***************************************************************************)
(* Decimal numbers.  A number read from the wire is kept as its digits     *)
(* without leading zeros, so that 64-bit values need no 64-bit arithmetic. *)
(***************************************************************************)
IsDigits(s) == Len(s) >= 1 /\ \A i \in 1..Len(s) : s[i] >= 48 /\ s[i] <= 57

RECURSIVE StripZeros(_)
StripZeros(s) == IF Len(s) > 1 /\ s[1] = 48 THEN StripZeros(Tail(s)) ELSE s

\* a < b or a = b for digit strings without leading zeros
RECURSIVE DigitsLeq(_, _)
DigitsLeq(a, b) ==
    IF Len(a) # Len(b) THEN Len(a) < Len(b)
    ELSE IF a = <<>> THEN TRUE
    ELSE IF a[1] # b[1] THEN a[1] < b[1]
    ELSE DigitsLeq(Tail(a), Tail(b))

\* 2^32 - 1, 2^63 - 1 and 2^64 - 1 in digits
MaxUint32Digits == <<52, 50, 57, 52, 57, 54, 55, 50, 57, 53>>
MaxInt64Digits ==
    <<57, 50, 50, 51, 51, 55, 50, 48, 51, 54, 56, 53, 52, 55, 55, 53, 56, 48, 55>>
MaxUint64Digits ==
    <<49, 56, 52, 52, 54, 55, 52, 52, 48, 55, 51, 55, 48, 57, 53, 53, 49, 54, 49, 53>>

\* An unsigned decimal of at most max: [ok, digits].
ParseDecimal(s, max) ==
    IF IsDigits(s) /\ DigitsLeq(StripZeros(s), max)
    THEN [ok |-> TRUE, digits |-> StripZeros(s)]
    ELSE [ok |-> FALSE, digits |-> <<>>]

\* The value of a short digit string.
RECURSIVE DigitsValue(_)
DigitsValue(d) ==
    IF d = <<>> THEN 0 ELSE 10 * DigitsValue(SubSeq(d, 1, Len(d) - 1)) + (d[Len(d)] - 48)

\* The digits of a natural number (%d).
RECURSIVE Itoa(_)
Itoa(n) == IF n < 10 THEN <<48 + n>> ELSE Itoa(n \div 10) \o <<48 + (n % 10)>>
(***************************************************************************)
(* The protocol engine.  Each function gets wok (whether the request could *)
(* be written and flushed) and the stream the server answers with, and     *)
(* returns the error of the Go function, the stream left unread, and the   *)
(* number of ReadSlice calls it made.                                      *)
(***************************************************************************)
ErrWrite == ErrIO("write error")

populateOne_NotFoundAsNotStored(verb, key, wok, in) ==
    IF ~legalKey(key) THEN [err |-> ErrMalformedKey, rest |-> in, reads |-> 0, wrote |-> FALSE]
    ELSE IF ~wok THEN [err |-> ErrWrite, rest |-> in, reads |-> 0, wrote |-> FALSE]
    ELSE LET r == ReadSlice(in)
         IN  [err |-> IF r.err # Nil THEN r.err
                      ELSE IF r.line = resultStored THEN Nil
                      ELSE IF r.line = resultNotStored THEN ErrNotStored
                      ELSE IF r.line = resultExists THEN ErrCASConflict
                      ELSE IF r.line = resultNotFound THEN ErrNotStored
                      ELSE ErrUnexpectedLine,
              rest |-> r.rest, reads |-> 1, wrote |-> TRUE]

populateOne(verb, key, wok, in) ==
    IF ~legalKey(key) THEN [err |-> ErrMalformedKey, rest |-> in, reads |-> 0, wrote |-> FALSE]
    ELSE IF ~wok THEN [err |-> ErrWrite, rest |-> in, reads |-> 0, wrote |-> FALSE]
    ELSE LET r == ReadSlice(in)
         IN  [err |-> IF r.err # Nil THEN r.err
                      ELSE IF r.line = resultStored THEN Nil
                      ELSE IF r.line = resultNotStored THEN ErrNotStored
                      ELSE IF r.line = resultExists THEN ErrCASConflict
                      ELSE IF r.line = resultNotFound THEN ErrCacheMiss
                      ELSE ErrUnexpectedLine,
              rest |-> r.rest, reads |-> 1, wrote |-> TRUE]

writeReadLine(wok, in) ==
    IF ~wok THEN [line |-> <<>>, err |-> ErrWrite, rest |-> in, reads |-> 0]
    ELSE LET r == ReadSlice(in)
         IN  [line |-> r.line, err |-> r.err, rest |-> r.rest, reads |-> 1]

writeExpectf_MissAsNil(expect, wok, in) ==
    LET r == writeReadLine(wok, in)
    IN  [err |-> IF r.err # Nil THEN r.err
                 ELSE IF r.line = expect \/ r.line = resultNotFound THEN Nil
                 ELSE ErrUnexpectedLine,
         rest |-> r.rest, reads |-> r.reads, wrote |-> wok]

writeExpectf(expect, wok, in) ==
    LET r == writeReadLine(wok, in)
    IN  [err |-> IF r.err # Nil THEN r.err
                 ELSE IF r.line = expect THEN Nil
                 ELSE IF r.line = resultNotStored THEN ErrNotStored
                 ELSE IF r.line = resultExists THEN ErrCASConflict
                 ELSE IF r.line = resultNotFound THEN ErrCacheMiss
                 ELSE ErrUnexpectedLine,
         rest |-> r.rest, reads |-> r.reads, wrote |-> wok]

\* The function incrDecr hands to withKeyRw.  A slice expression whose high
\* bound is below its low bound aborts the goroutine (panic).
incrDecrFn(wok, in) ==
    LET r == writeReadLine(wok, in)
        n == Len(r.line)
        p == Len(resultClientErrorPrefix)
    IN  IF r.err # Nil
        THEN [err |-> r.err, panic |-> FALSE, val |-> <<>>, msg |-> <<>>,
              rest |-> r.rest, reads |-> r.reads, wrote |-> wok]
        ELSE IF r.line = resultNotFound
        THEN [err |-> ErrCacheMiss, panic |-> FALSE, val |-> <<>>, msg |-> <<>>,
              rest |-> r.rest, reads |-> 1, wrote |-> TRUE]
        ELSE IF HasPrefix(r.line, resultClientErrorPrefix)
        THEN IF n - 2 < p
             THEN [err |-> Nil, panic |-> TRUE, val |-> <<>>, msg |-> <<>>,
                   rest |-> r.rest, reads |-> 1, wrote |-> TRUE]
             ELSE [err |-> ErrClientError, panic |-> FALSE, val |-> <<>>,
                   msg |-> SubSeq(r.line, p + 1, n - 2),
                   rest |-> r.rest, reads |-> 1, wrote |-> TRUE]
        ELSE IF n - 2 < 0
        THEN [err |-> Nil, panic |-> TRUE, val |-> <<>>, msg |-> <<>>,
              rest |-> r.rest, reads |-> 1, wrote |-> TRUE]
        ELSE LET v == ParseDecimal(SubSeq(r.line, 1, n - 2), MaxUint64Digits)
             IN  [err |-> IF v.ok THEN Nil ELSE ErrParseUint, panic |-> FALSE,
                  val |-> v.digits, msg |-> <<>>,
                  rest |-> r.rest, reads |-> 1, wrote |-> TRUE]

(***************************************************************************)
(* Retrieval.                                                              *)
(***************************************************************************)
\* The pieces of s between single spaces.
RECURSIVE Split(_)
Split(s) ==
    IF \E i \in 1..Len(s) : s[i] = 32
    THEN LET i == CHOOSE i \in 1..Len(s) : s[i] = 32 /\ \A j \in 1..(i - 1) : s[j] # 32
         IN  <<SubSeq(s, 1, i - 1)>> \o Split(Drop(s, i))
    ELSE <<s>>

\* The line without its line end; fmt's scanning takes "\r\n" for "\n".
ChompLine(line) ==
    IF HasSuffix(line, crlf) THEN SubSeq(line, 1, Len(line) - 2)
    ELSE IF HasSuffix(line, <<10>>) THEN SubSeq(line, 1, Len(line) - 1)
    ELSE line

\* %d into an int: an optional sign and digits.
ParseSize(s) ==
    LET neg == Len(s) >= 1 /\ s[1] = 45
        d == ParseDecimal(IF neg THEN Tail(s) ELSE s, MaxInt64Digits)
    IN  [ok |-> d.ok,
         size |-> IF ~d.ok THEN 0
                  ELSE IF Len(d.digits) > 6 THEN (IF neg THEN 0 - 999999 ELSE 999999)
                  ELSE IF neg THEN 0 - DigitsValue(d.digits) ELSE DigitsValue(d.digits)]

\* fmt.Sscanf with "VALUE %s %d %d %d\r\n", or with "VALUE %s %d %d\r\n" for a
\* line of three spaces: [err, size, it].  Only lines whose fields are
\* separated by one space are taken to scan.
scanGetResponseLine(line) ==
    LET f == Split(ChompLine(line))
        want == IF CountSpaces(line) = 3 THEN 4 ELSE 5
        bad == [err |-> ErrUnexpectedLine, size |-> 0 - 1,
                it |-> [Key |-> <<>>, Value |-> <<>>, Flags |-> <<48>>, Expiration |-> 0,
                       casid |-> <<48>>]]
    IN  IF Len(f) # want \/ ~HasSuffix(line, <<10>>) THEN bad
        ELSE LET flags == ParseDecimal(f[3], MaxUint32Digits)
                 size == ParseSize(f[4])
                 cas == IF want = 5 THEN ParseDecimal(f[5], MaxUint64Digits)
                        ELSE [ok |-> TRUE, digits |-> <<48>>]
             IN  IF f[1] # <<86, 65, 76, 85, 69>> \/ f[2] = <<>>
                    \/ ~flags.ok \/ ~size.ok \/ ~cas.ok
                 THEN bad
                 ELSE [err |-> Nil, size |-> size.size,
                       it |-> [Key |-> f[2], Value |-> <<>>, Flags |-> flags.digits,
                               Expiration |-> 0, casid |-> cas.digits]]

Reslice_Whole(b, n) == b

\* b[:n] of a slice ReadAll returned: its capacity is at least 512 and the
\* bytes past its length are zero; beyond the capacity the expression aborts.
Reslice(b, n) == [i \in 1..n |-> IF i <= Len(b) THEN b[i] ELSE 0]

\* parseGetResponse: the items handed to cb, in order, and the error.  The
\* loop body is cut at its calls: after ReadSlice, after
\* scanGetResponseLine, after ReadAll, after cb.
ParseEnd(rest, err, panic) ==
    [err |-> err, panic |-> panic, items |-> <<>>, rest |-> rest, reads |-> 1]

ParseCons(it, more) ==
    [err |-> more.err, panic |-> more.panic, items |-> <<it>> \o more.items,
     rest |-> more.rest, reads |-> 1 + more.reads]

RECURSIVE parseGetResponse(_), parseAfterLine(_), parseAfterScan(_, _), parseAfterValue(_, _)
parseGetResponse(in) == parseAfterLine(ReadSlice(in))

parseAfterLine(r) ==
    IF r.err # Nil THEN ParseEnd(r.rest, r.err, FALSE)
    ELSE IF r.line = resultEnd THEN ParseEnd(r.rest, Nil, FALSE)
    ELSE parseAfterScan(r, scanGetResponseLine(r.line))

parseAfterScan(r, h) ==
    IF h.err # Nil THEN ParseEnd(r.rest, h.err, FALSE)
    ELSE parseAfterValue(h, ReadAllLimit(r.rest, h.size + 2))

parseAfterValue_First(h, v) ==
    IF v.err # Nil THEN ParseEnd(v.rest, v.err, FALSE)
    ELSE IF ~HasSuffix(v.data, crlf) THEN ParseEnd(v.rest, ErrCorruptGet, FALSE)
    ELSE ParseCons([h.it EXCEPT !.Value = Reslice(v.data, h.size)],
                   ParseEnd(v.rest, Nil, FALSE))

parseAfterValue(h, v) ==
    IF v.err # Nil THEN ParseEnd(v.rest, v.err, FALSE)
    ELSE IF ~HasSuffix(v.data, crlf) THEN ParseEnd(v.rest, ErrCorruptGet, FALSE)
    ELSE IF h.size > Len(v.data) /\ h.size > 512 THEN ParseEnd(v.rest, Nil, TRUE)
    ELSE ParseCons([h.it EXCEPT !.Value = Reslice(v.data, h.size)],
                   parseGetResponse(v.rest))

\* The function getFromAddr hands to withAddrRw; r is what parseGetResponse
\* made of the answer.
getFromAddrParsed(r) ==
    [err |-> r.err, panic |-> r.panic, items |-> r.items, rest |-> r.rest,
     reads |-> r.reads, wrote |-> TRUE]

getFromAddrFn(wok, in) ==
    IF ~wok
    THEN [err |-> ErrWrite, panic |-> FALSE, items |-> <<>>, rest |-> in, reads |-> 0,
          wrote |-> FALSE]
    ELSE getFromAddrParsed(parseGetResponse(in))

(***************************************************************************)
(* What the functions write: the request bytes.                            *)
(***************************************************************************)
\* %d of an int32
FmtInt(n) == IF n < 0 THEN <<45>> \o Itoa(0 - n) ELSE Itoa(n)

\* strings.Join(keys, " ")
RECURSIVE JoinKeys(_)
JoinKeys(keys) ==
    IF keys = <<>> THEN <<>>
    ELSE IF Len(keys) = 1 THEN keys[1]
    ELSE keys[1] \o space \o JoinKeys(Tail(keys))

\* "set", "add", "cas" in bytes
VerbBytes(verb) ==
    CASE verb = "set" -> <<115, 101, 116>>
      [] verb = "add" -> <<97, 100, 100>>
      [] verb = "cas" -> <<99, 97, 115>>
      [] verb = "incr" -> <<105, 110, 99, 114>>
      [] verb = "decr" -> <<100, 101, 99, 114>>
      [] OTHER -> <<>>

\* populateOne: the command line, the value, "\r\n"
storeRequest_NoCasid(verb, item) ==
    VerbBytes(verb) \o space \o item.Key \o space \o item.Flags \o space
        \o FmtInt(item.Expiration) \o space \o Itoa(Len(item.Value))
        \o crlf \o item.Value \o crlf

storeRequest(verb, item) ==
    VerbBytes(verb) \o space \o item.Key \o space \o item.Flags \o space
        \o FmtInt(item.Expiration) \o space \o Itoa(Len(item.Value))
        \o (IF verb = "cas" THEN space \o item.casid ELSE <<>>)
        \o crlf \o item.Value \o crlf

\* getFromAddr: "gets %s\r\n"
getsRequest(keys) == <<103, 101, 116, 115>> \o space \o JoinKeys(keys) \o crlf

\* Delete: "delete %s\r\n"
deleteRequest(key) == <<100, 101, 108, 101, 116, 101>> \o space \o key \o crlf

(***************************************************************************)
(* What the server may answer: a sample of streams for each kind of        *)
(* request.  Stream(b) ends in silence, Closed(b) with the peer closing.   *)
(***************************************************************************)
Stream(b) == [bytes |-> b, end |-> "timeout"]
Closed(b) == [bytes |-> b, end |-> "EOF"]

\* "ERROR\r\n", "STORED\n", "STORED"
lineError == <<69, 82, 82, 79, 82, 13, 10>>
lineStoredLF == <<83, 84, 79, 82, 69, 68, 10>>
textStored == <<83, 84, 79, 82, 69, 68>>

StoreStreams ==
    {Stream(resultStored), Stream(resultNotStored), Stream(resultExists),
     Stream(resultNotFound), Stream(resultDeleted), Stream(lineError),
     Stream(lineStoredLF), Stream(textStored), Stream(<<>>), Closed(<<>>),
     Stream(resultStored \o resultStored)}

DeleteStreams ==
    {Stream(resultDeleted), Stream(resultNotFound), Stream(resultNotStored),
     Stream(resultExists), Stream(resultStored), Stream(lineError), Stream(<<>>),
     Closed(<<>>)}

\* "15\r\n", "15\n", "abc\r\n", "CLIENT_ERROR bad\r\n", "CLIENT_ERROR \n", "\n",
\* "18446744073709551616\r\n"
IncrStreams ==
    {Stream(<<49, 53, 13, 10>>), Stream(<<49, 53, 10>>), Stream(resultNotFound), Stream(<<97, 98, 99, 13, 10>>),
     Stream(resultClientErrorPrefix \o <<98, 97, 100, 13, 10>>),
     Stream(resultClientErrorPrefix \o <<10>>), Stream(<<10>>),
     Stream(<<49, 56, 52, 52, 54, 55, 52, 52, 48, 55, 51, 55, 48, 57, 53, 53, 49, 54,
              49, 54, 13, 10>>),
     Stream(<<>>), Closed(<<>>)}

\* "VALUE <key> <flags> <size> <casid>\r\n" and the three-field form
ValueLine(key, flags, size, casid) ==
    <<86, 65, 76, 85, 69, 32>> \o key \o <<32>> \o Itoa(flags) \o <<32>> \o Itoa(size)
        \o <<32>> \o Itoa(casid) \o crlf
ValueLine3(key, flags, size) ==
    <<86, 65, 76, 85, 69, 32>> \o key \o <<32>> \o Itoa(flags) \o <<32>> \o Itoa(size) \o crlf

\* "bar"
valBar == <<98, 97, 114>>

\* One well-formed record for key.
ValueRecord(key) == ValueLine(key, 7, Len(valBar), 12) \o valBar \o crlf

\* Answers to "gets key": a miss, a hit, a hit without cas id, a payload
\* longer and one shorter than declared, a stream cut after the payload, an
\* error line, nothing at all, and a hit followed by a cut stream.
GetStreams(key) ==
    {Stream(resultEnd),
     Stream(ValueRecord(key) \o resultEnd),
     Stream(ValueLine3(key, 7, 3) \o valBar \o crlf \o resultEnd),
     Stream(ValueLine(key, 7, 2, 12) \o valBar \o crlf \o resultEnd),
     Stream(ValueLine(key, 7, 5, 12) \o valBar \o crlf \o resultEnd),
     Closed(ValueLine(key, 7, 5, 12) \o valBar \o crlf),
     Stream(lineError), Stream(<<>>), Closed(<<>>),
     Closed(ValueRecord(key))}
(***************************************************************************)
(* A memcached server, as far as the client's requests go: the items it    *)
(* holds, each with the cas unique of its last store, and its answer to    *)
(* the bytes of one request.                                               *)
(***************************************************************************)
SrvKeys == {keyA, keyB}

NoEntry == [present |-> FALSE, Value |-> <<>>, Flags |-> <<48>>, cas |-> 0]

EmptyStore == [k \in SrvKeys |-> NoEntry]

\* "CLIENT_ERROR bad\r\n"
lineClientError == resultClientErrorPrefix \o <<98, 97, 100, 13, 10>>

\* The records of the keys it holds, then END.
RECURSIVE GetsAnswer(_, _)
GetsAnswer(store, keys) ==
    IF keys = <<>> THEN resultEnd
    ELSE (IF Head(keys) \in SrvKeys /\ store[Head(keys)].present
          THEN <<86, 65, 76, 85, 69>> \o space \o Head(keys) \o space
                  \o store[Head(keys)].Flags \o space
                  \o Itoa(Len(store[Head(keys)].Value)) \o space
                  \o Itoa(store[Head(keys)].cas) \o crlf
                  \o store[Head(keys)].Value \o crlf
          ELSE <<>>) \o GetsAnswer(store, Tail(keys))

\* set, add, cas: f is the command line in fields, data the bytes after it.
ServeStore(st, f, data) ==
    LET k == f[2]
        flags == ParseDecimal(f[3], MaxUint32Digits)
        exp == ParseSize(f[4])
        n == ParseDecimal(f[5], <<49, 48, 52, 56, 53, 55, 54>>)
        cas == IF Len(f) = 6 THEN ParseDecimal(f[6], MaxUint64Digits)
               ELSE [ok |-> TRUE, digits |-> <<48>>]
        stored == [st EXCEPT !.store[k] = [present |-> TRUE,
                                           Value |-> SubSeq(data, 1, DigitsValue(n.digits)),
                                           Flags |-> flags.digits, cas |-> st.cas],
                             !.cas = @ + 1]
    IN  IF ~flags.ok \/ ~exp.ok \/ ~n.ok \/ ~cas.ok
        THEN [st |-> st, resp |-> lineClientError]
        ELSE IF Len(data) # DigitsValue(n.digits) + 2 \/ ~HasSuffix(data, crlf)
        THEN [st |-> st, resp |-> lineClientError]
        ELSE IF f[1] = <<115, 101, 116>>
        THEN [st |-> stored, resp |-> resultStored]
        ELSE IF f[1] = <<97, 100, 100>>
        THEN IF st.store[k].present THEN [st |-> st, resp |-> resultNotStored]
             ELSE [st |-> stored, resp |-> resultStored]
        ELSE IF ~st.store[k].present THEN [st |-> st, resp |-> resultNotFound]
        ELSE IF cas.digits # Itoa(st.store[k].cas) THEN [st |-> st, resp |-> resultExists]
        ELSE [st |-> stored, resp |-> resultStored]

\* The server's state after the request and the bytes it answers with.  A
\* store command it cannot take is an error, and so is the line of the data
\* block after it, which it reads as the next command.
Serve(st, req) ==
    LET i == IndexLF(req)
        line == SubSeq(req, 1, i)
        f == Split(ChompLine(line))
    IN  IF i = 0 \/ ~HasSuffix(line, crlf) THEN [st |-> st, resp |-> lineError]
        ELSE IF f[1] = <<103, 101, 116, 115>> /\ Len(f) >= 2
                  /\ \A j \in 2..Len(f) : f[j] # <<>>
        THEN [st |-> st, resp |-> GetsAnswer(st.store, Tail(f))]
        ELSE IF f[1] = <<100, 101, 108, 101, 116, 101>> /\ Len(f) = 2 /\ f[2] \in SrvKeys
        THEN IF st.store[f[2]].present
             THEN [st |-> [st EXCEPT !.store[f[2]] = NoEntry], resp |-> resultDeleted]
             ELSE [st |-> st, resp |-> resultNotFound]
        ELSE IF \/ f[1] \in {<<115, 101, 116>>, <<97, 100, 100>>} /\ Len(f) = 5
                \/ f[1] = <<99, 97, 115>> /\ Len(f) = 6
        THEN IF f[2] \in SrvKeys THEN ServeStore(st, f, Drop(req, i))
             ELSE [st |-> st, resp |-> lineError \o lineError]
        ELSE [st |-> st, resp |-> lineError]

(***************************************************************************)
(* The state.                                                              *)
(***************************************************************************)
VARIABLES
    freeconn,   \* Client.freeconn: address -> the idle connections, oldest first
    nc,         \* conn.nc: "none" (not dialed yet), "open" or "closed"
    cnAddr,     \* conn.addr
    deadline,   \* how often SetDeadline was called on conn.nc since the
                \* connection was last taken (dialed, or popped from the pool)
    pc,         \* where each task is: "ready", "dial", "io", "send", "done"
    call,       \* the operation a task runs: [op, keys, addr], and its result in err
    cn,         \* the connection a task holds (0: none)
    dial,       \* the background dial of a task: [st, addr, nc, late]
    last,       \* history: the operation that the last step ended, if it ended one
    gm,         \* the GetMulti call: [pc, n, ch, m, err, launched, ret] and, as
                \* history, the items handed to addItemToMap and the errors sent
    kIn, kOut,  \* a key and what legalKey said of it
    srv         \* a server and one caller of the Client: [store, cas] of the
                \* server, the bytes unread on each connection, the item the
                \* current call was given, and as history the calls so far

vars == <<freeconn, nc, cnAddr, deadline, pc, call, cn, dial, last, gm, kIn, kOut, srv>>

Addrs == {"s1", "s2"}
NoAddr == ""
Tasks == 1..NumCalls
Conns == 1..NumCalls

KeyOps == {"Get", "Delete", "Increment", "Decrement"}
ItemOps == {"Set", "Add", "CompareAndSwap"}
SampleKeys == {keyA, keySpace, keyEmpty, keyLong}

NoCall == [op |-> "", keys |-> <<>>, addr |-> NoAddr, idle |-> 0, err |-> Nil]
NoDial == [st |-> "none", addr |-> NoAddr, nc |-> 0, late |-> FALSE]
NoGM ==
    [pc |-> "ready", n |-> 0, ch |-> <<>>, m |-> {}, err |-> Nil, launched |-> {},
     ret |-> [at |-> "", nilmap |-> FALSE, err |-> Nil], delivered |-> {}, sent |-> {}]
NoItem ==
    [Key |-> <<>>, Value |-> <<>>, Flags |-> <<48>>, Expiration |-> 0, casid |-> <<48>>]
NoSrv ==
    [store |-> EmptyStore, cas |-> 1, rbuf |-> [c \in Conns |-> <<>>], arg |-> NoItem,
     hist |-> <<>>]
NoLast ==
    [op |-> "", keys |-> <<>>, addr |-> NoAddr, idle |-> 0, cn |-> 0, err |-> Nil,
     relErr |-> Nil, panic |-> FALSE, disp |-> "none", reads |-> 0, wrote |-> FALSE,
     in |-> <<>>, items |-> <<>>, val |-> <<>>, msg |-> <<>>, underLock |-> {},
     end |-> "", deadlines |-> 0]

(***************************************************************************)
(* The pool.  putFreeConn and getFreeConn run under Client.lk, so each is  *)
(* one step.  They return the new freeconn and nc; underLock is the set of *)
(* transport operations made between c.lk.Lock() and the deferred Unlock.  *)
(***************************************************************************)
putFreeConn_NoCap(fc, ncs, addr, c) ==
    [freeconn |-> [fc EXCEPT ![addr] = Append(@, c)], nc |-> ncs, disp |-> "pooled",
     underLock |-> {}]

putFreeConn(fc, ncs, addr, c) ==
    IF Len(fc[addr]) >= maxIdleConnsPerAddr
    THEN [freeconn |-> fc, nc |-> [ncs EXCEPT ![c] = "closed"], disp |-> "dropped",
          underLock |-> {"close"}]
    ELSE [freeconn |-> [fc EXCEPT ![addr] = Append(@, c)], nc |-> ncs, disp |-> "pooled",
          underLock |-> {}]

getFreeConn_NoRemove(fc, addr) ==
    IF Len(fc[addr]) = 0
    THEN [ok |-> FALSE, cn |-> 0, freeconn |-> fc]
    ELSE [ok |-> TRUE, cn |-> fc[addr][Len(fc[addr])], freeconn |-> fc]

getFreeConn_Held(fc, addr) ==
    IF Len(fc[addr]) = 0
    THEN IF \E c \in DOMAIN nc : nc[c] = "open" /\ cnAddr[c] = addr
         THEN [ok |-> TRUE, freeconn |-> fc,
               cn |-> CHOOSE c \in DOMAIN nc : nc[c] = "open" /\ cnAddr[c] = addr]
         ELSE [ok |-> FALSE, cn |-> 0, freeconn |-> fc]
    ELSE [ok |-> TRUE, cn |-> fc[addr][Len(fc[addr])],
          freeconn |-> [fc EXCEPT ![addr] = SubSeq(@, 1, Len(@) - 1)]]

getFreeConn_Oldest(fc, addr) ==
    IF Len(fc[addr]) = 0
    THEN [ok |-> FALSE, cn |-> 0, freeconn |-> fc]
    ELSE [ok |-> TRUE, cn |-> fc[addr][1], freeconn |-> [fc EXCEPT ![addr] = Tail(@)]]

getFreeConn(fc, addr) ==
    IF Len(fc[addr]) = 0
    THEN [ok |-> FALSE, cn |-> 0, freeconn |-> fc]
    ELSE [ok |-> TRUE, cn |-> fc[addr][Len(fc[addr])],
          freeconn |-> [fc EXCEPT ![addr] = SubSeq(@, 1, Len(@) - 1)]]

release(fc, ncs, c) == putFreeConn(fc, ncs, cnAddr[c], c)

condRelease_Always(fc, ncs, c, err) == release(fc, ncs, c)

condRelease_Leak(fc, ncs, c, err) ==
    IF err = Nil \/ resumableError(err)
    THEN release(fc, ncs, c)
    ELSE [freeconn |-> fc, nc |-> ncs, disp |-> "closed", underLock |-> {}]

condRelease(fc, ncs, c, err) ==
    IF err = Nil \/ resumableError(err)
    THEN release(fc, ncs, c)
    ELSE [freeconn |-> fc, nc |-> [ncs EXCEPT ![c] = "closed"], disp |-> "closed",
          underLock |-> {}]

(***************************************************************************)
(* The selector (ServerSelector.PickServer) is a collaborator: it answers  *)
(* with an address or with an error.                                       *)
(***************************************************************************)
SelectorResults ==
    {[addr |-> a, err |-> Nil] : a \in Addrs} \cup {[addr |-> NoAddr, err |-> ErrNoServers]}

\* withKeyAddr up to the call of fn: the error it returns, or Nil and the
\* address fn is called with.
withKeyAddr(key, sel) ==
    IF ~legalKey(key) THEN [addr |-> NoAddr, err |-> ErrMalformedKey]
    ELSE sel

\* onItem up to getConn.
onItemPick(key, sel) == sel

Route(op, key, sel) ==
    IF op \in KeyOps THEN withKeyAddr(key, sel) ELSE onItemPick(key, sel)

\* The connection a dial makes: the least one not made yet.
NewConn == CHOOSE c \in Conns : nc[c] = "none" /\ \A d \in Conns : d < c => nc[d] # "none"

\* The operation of task t ends without a connection.  A task of GetMulti
\* has its result to send yet.
EndNoConn(t, c, addr, err) ==
    /\ IF c.op = "getFromAddr"
       THEN /\ pc' = [pc EXCEPT ![t] = "send"]
            /\ call' = [call EXCEPT ![t].err = err]
       ELSE /\ pc' = [pc EXCEPT ![t] = "done"]
            /\ call' = [call EXCEPT ![t] = NoCall]
    /\ last' = [NoLast EXCEPT !.op = c.op, !.keys = c.keys, !.addr = addr,
                              !.err = err, !.relErr = err]

\* A connection is taken: the count of its SetDeadline calls starts anew.
Taken(d, c) == [d EXCEPT ![c] = 0]

extendDeadline_None(d, c) == d

\* cn.nc.SetDeadline(time.Now().Add(cn.c.netTimeout()))
extendDeadline(d, c) == [d EXCEPT ![c] = @ + 1]

(***************************************************************************)
(* getConn up to the dial: task t, which runs c, takes the newest idle     *)
(* connection of addr (and extends its deadline) or starts a dial.         *)
(***************************************************************************)
getConnStart(t, c, addr) ==
    LET g == getFreeConn(freeconn, addr)
    IN  /\ call' = [call EXCEPT ![t] = [c EXCEPT !.idle = Len(freeconn[addr])]]
        /\ freeconn' = g.freeconn
        /\ deadline' = IF g.ok THEN extendDeadline(Taken(deadline, g.cn), g.cn)
                       ELSE deadline
        /\ IF g.ok
           THEN /\ cn' = [cn EXCEPT ![t] = g.cn]
                /\ pc' = [pc EXCEPT ![t] = "io"]
                /\ dial' = dial
           ELSE /\ pc' = [pc EXCEPT ![t] = "dial"]
                /\ dial' = [dial EXCEPT ![t] = [NoDial EXCEPT !.st = "running",
                                                              !.addr = addr]]
                /\ cn' = cn

(***************************************************************************)
(* A task calls a single-key operation: the key check and the selector     *)
(* (which touch nothing shared), then getConn's look into the pool.  Tasks *)
(* are numbered in the order of their calls.                               *)
(***************************************************************************)
Call(t, op, key, sel) ==
    /\ pc[t] = "ready"
    /\ \A u \in Tasks : u < t => pc[u] # "ready"
    /\   LET r == Route(op, key, sel)
             c == [op |-> op, keys |-> <<key>>, addr |-> r.addr, idle |-> 0, err |-> Nil]
         IN  IF r.err # Nil
             THEN /\ EndNoConn(t, c, NoAddr, r.err)
                  /\ UNCHANGED <<freeconn, cn, dial, deadline>>
             ELSE /\ getConnStart(t, c, r.addr)
                  /\ last' = NoLast
    /\ UNCHANGED <<nc, cnAddr, gm, kIn, kOut>>

(***************************************************************************)
(* dial: a goroutine runs net.Dial and sends the result on an unbuffered   *)
(* channel; the caller takes it, or its timer fires first and a second     *)
(* goroutine is left to take the result and close the transport.           *)
(***************************************************************************)
\* net.Dial returns in time and the caller's select takes the result:
\* case ce := <-ch.  The rest of getConn follows: the new conn, its
\* deadline.
DialRecv(t, ok) ==
    /\ pc[t] = "dial"
    /\ dial[t].st = "running"
    /\ dial' = [dial EXCEPT ![t] = NoDial]
    /\ IF ok
       THEN /\ nc' = [nc EXCEPT ![NewConn] = "open"]
            /\ cnAddr' = [cnAddr EXCEPT ![NewConn] = dial[t].addr]
            /\ deadline' = extendDeadline(Taken(deadline, NewConn), NewConn)
            /\ cn' = [cn EXCEPT ![t] = NewConn]
            /\ pc' = [pc EXCEPT ![t] = "io"]
            /\ call' = call
            /\ last' = NoLast
       ELSE /\ EndNoConn(t, call[t], dial[t].addr, ErrDial)
            /\ UNCHANGED <<nc, cnAddr, deadline, cn>>
    /\ UNCHANGED <<freeconn, gm, kIn, kOut, srv>>

\* Whether dial leaves a goroutine behind to take a late result.
lateReceiver_None == FALSE

lateReceiver == TRUE

DialTimeout_Flush(t) ==
    /\ pc[t] = "dial"
    /\ dial' = [dial EXCEPT ![t].late = lateReceiver]
    /\ EndNoConn(t, call[t], dial[t].addr, ConnectTimeoutError(dial[t].addr))
    /\ freeconn' = [a \in Addrs |-> <<>>]
    /\ UNCHANGED <<nc, cnAddr, deadline, cn, gm, kIn, kOut, srv>>

\* select: case <-time.After(c.netTimeout()).  The select takes this case
\* also when net.Dial has returned but its result is not taken yet; the
\* model lets net.Dial return after it.
DialTimeout(t) ==
    /\ pc[t] = "dial"
    /\ dial' = [dial EXCEPT ![t].late = lateReceiver]
    /\ EndNoConn(t, call[t], dial[t].addr, ConnectTimeoutError(dial[t].addr))
    /\ UNCHANGED <<freeconn, nc, cnAddr, deadline, cn, gm, kIn, kOut, srv>>

\* net.Dial returns after the caller has gone: the goroutine now waits to
\* send its result.
NetDialReturns(t, ok) ==
    /\ pc[t] # "dial"
    /\ dial[t].st = "running"
    /\ IF ok
       THEN /\ nc' = [nc EXCEPT ![NewConn] = "open"]
            /\ cnAddr' = [cnAddr EXCEPT ![NewConn] = dial[t].addr]
            /\ dial' = [dial EXCEPT ![t].st = "sendOK", ![t].nc = NewConn]
       ELSE /\ dial' = [dial EXCEPT ![t].st = "sendErr"]
            /\ UNCHANGED <<nc, cnAddr>>
    /\ last' = NoLast
    /\ UNCHANGED <<freeconn, deadline, pc, call, cn, gm, kIn, kOut, srv>>

\* ce := <-ch in the goroutine dial left behind, and the Close
LateRecv(t) ==
    /\ dial[t].late
    /\ dial[t].st \in {"sendOK", "sendErr"}
    /\ dial' = [dial EXCEPT ![t].st = "done", ![t].addr = NoAddr]
    /\ nc' = IF dial[t].st = "sendOK" THEN [nc EXCEPT ![dial[t].nc] = "closed"] ELSE nc
    /\ last' = NoLast
    /\ UNCHANGED <<freeconn, cnAddr, deadline, pc, call, cn, gm, kIn, kOut, srv>>

(***************************************************************************)
(* The exchange on the connection a task holds, and the deferred           *)
(* condRelease.  No other task can touch the connection meanwhile, so the  *)
(* request, the reads and the release are one step.                        *)
(***************************************************************************)
StreamsOf(c) ==
    IF c.op \in ItemOps THEN StoreStreams
    ELSE IF c.op = "Delete" THEN DeleteStreams
    ELSE IF c.op \in {"Increment", "Decrement"} THEN IncrStreams
    ELSE GetStreams(c.keys[1])
             \cup {Stream(ValueRecord(c.keys[1]) \o ValueRecord(c.keys[Len(c.keys)])
                          \o resultEnd)}

VerbOf(op) ==
    CASE op = "Set" -> "set" [] op = "Add" -> "add" [] op = "CompareAndSwap" -> "cas"
      [] op = "Increment" -> "incr" [] op = "Decrement" -> "decr" [] OTHER -> ""

\* What the function handed to onItem or withAddrRw returns, in one shape.
RunResult(r, panic, items) ==
    [err |-> r.err, panic |-> panic, items |-> items, reads |-> r.reads,
     wrote |-> r.wrote, rest |-> r.rest.bytes, val |-> <<>>, msg |-> <<>>]

RunOfIncr(r) == [RunResult(r, r.panic, <<>>) EXCEPT !.val = r.val, !.msg = r.msg]

RunOfGet(r) == RunResult(r, r.panic, r.items)

RunFn(c, wok, in) ==
    IF c.op \in ItemOps
    THEN RunResult(populateOne(VerbOf(c.op), c.keys[1], wok, in), FALSE, <<>>)
    ELSE IF c.op = "Delete"
    THEN RunResult(writeExpectf(resultDeleted, wok, in), FALSE, <<>>)
    ELSE IF c.op \in {"Increment", "Decrement"}
    THEN RunOfIncr(incrDecrFn(wok, in))
    ELSE RunOfGet(getFromAddrFn(wok, in))

\* What the public operation returns: Get turns "no item" into ErrCacheMiss.
FinalErr_NoMiss(c, r) == r.err

FinalErr(c, r) ==
    IF c.op = "Get" /\ r.err = Nil /\ r.items = <<>> THEN ErrCacheMiss ELSE r.err

\* m[it.Key] = it for each item, in order (addItemToMap).
RECURSIVE addItemsToMap(_, _)
addItemsToMap(m, items) ==
    IF items = <<>> THEN m
    ELSE addItemsToMap({x \in m : x.Key # Head(items).Key} \cup {Head(items)}, Tail(items))

Range(f) == {f[i] : i \in DOMAIN f}

\* The end of the operation of task t, which ran c on the stream in: r is
\* what its function returned, rel what the deferred condRelease did.
Finish(t, c, in, r, rel) ==
    /\ freeconn' = rel.freeconn
    /\ nc' = rel.nc
    /\ cn' = [cn EXCEPT ![t] = 0]
    /\ IF c.op = "getFromAddr"
       THEN /\ pc' = [pc EXCEPT ![t] = "send"]
            /\ call' = [call EXCEPT ![t].err = r.err]
            /\ gm' = [gm EXCEPT !.m = addItemsToMap(@, r.items),
                                !.delivered = @ \cup Range(r.items)]
       ELSE /\ pc' = [pc EXCEPT ![t] = "done"]
            /\ call' = [call EXCEPT ![t] = NoCall]
            /\ gm' = gm
    /\ last' = [op |-> c.op, keys |-> c.keys, addr |-> cnAddr[cn[t]],
                idle |-> c.idle, cn |-> cn[t], err |-> FinalErr(c, r), relErr |-> r.err,
                panic |-> r.panic, disp |-> rel.disp, reads |-> r.reads,
                wrote |-> r.wrote, in |-> in.bytes, items |-> r.items, val |-> r.val,
                msg |-> r.msg, underLock |-> rel.underLock, end |-> in.end,
                deadlines |-> deadline[cn[t]]]

Released(t, c, in, r) == Finish(t, c, in, r, condRelease(freeconn, nc, cn[t], r.err))

Exchange(t, wok, in) ==
    /\ pc[t] = "io"
    /\ Released(t, call[t], in, RunFn(call[t], wok, in))
    /\ UNCHANGED <<cnAddr, deadline, dial, kIn, kOut>>
(***************************************************************************)
(* GetMulti.                                                               *)
(***************************************************************************)
KeyLists == {<<>>, <<keyA>>, <<keyA, keyB>>, <<keyB, keySpace>>, <<keySpace, keyA>>}

\* The loop over keys: the index of the first key that is illegal or that
\* the selector fails on, 0 if there is none.
FirstBad(keys, sels) ==
    LET bad == {i \in 1..Len(keys) : ~legalKey(keys[i]) \/ sels[i].err # Nil}
    IN  IF bad = {} THEN 0 ELSE CHOOSE i \in bad : \A j \in bad : i <= j

\* What GetMulti returns from inside that loop.
earlyReturn_WithMap(keys, sels) ==
    LET i == FirstBad(keys, sels)
    IN  IF ~legalKey(keys[i])
        THEN [at |-> "key", nilmap |-> FALSE, err |-> ErrMalformedKey]
        ELSE [at |-> "selector", nilmap |-> FALSE, err |-> sels[i].err]

earlyReturn(keys, sels) ==
    LET i == FirstBad(keys, sels)
    IN  IF ~legalKey(keys[i])
        THEN [at |-> "key", nilmap |-> TRUE, err |-> ErrMalformedKey]
        ELSE [at |-> "selector", nilmap |-> TRUE, err |-> sels[i].err]

\* keyMap[addr]: the keys the selector sent to addr, in order.
RECURSIVE keyMapOf(_, _, _)
keyMapOf(keys, sels, addr) ==
    IF keys = <<>> THEN <<>>
    ELSE (IF sels[1].addr = addr THEN <<keys[1]>> ELSE <<>>)
             \o keyMapOf(Tail(keys), Tail(sels), addr)

\* The task that runs the bucket of each address.
TaskOf(used) ==
    CHOOSE f \in [used -> Tasks] : \A a, b \in used : a # b => f[a] # f[b]

\* for _ = range keyMap: the turns of the collecting loop for n buckets.
collectTurns_Buffered(n) == Min(n, buffered)

collectTurns(n) == n

GMCall(keys, sels) ==
    /\ gm.pc = "ready"
    /\ IF FirstBad(keys, sels) # 0
       THEN /\ gm' = [gm EXCEPT !.pc = "done", !.ret = earlyReturn(keys, sels)]
            /\ UNCHANGED <<pc, call>>
       ELSE LET used == {a \in Addrs : keyMapOf(keys, sels, a) # <<>>}
                f == TaskOf(used)
                ts == {f[a] : a \in used}
                a(t) == CHOOSE x \in used : f[x] = t
            IN  /\ gm' = [gm EXCEPT !.pc = "collect", !.n = collectTurns(Cardinality(used)),
                                    !.launched = ts]
                /\ pc' = [t \in Tasks |-> IF t \in ts THEN "launched" ELSE pc[t]]
                /\ call' = [t \in Tasks |->
                              IF t \in ts
                              THEN [op |-> "getFromAddr", keys |-> keyMapOf(keys, sels, a(t)),
                                    addr |-> a(t), idle |-> 0, err |-> Nil]
                              ELSE call[t]]
    /\ last' = NoLast
    /\ UNCHANGED <<freeconn, nc, cnAddr, deadline, cn, dial, kIn, kOut, srv>>

\* A launched task reaches getConn.
SubStart(t) ==
    /\ pc[t] = "launched"
    /\ getConnStart(t, call[t], call[t].addr)
    /\ last' = NoLast
    /\ UNCHANGED <<nc, cnAddr, gm, kIn, kOut, srv>>

\* ch <- c.getFromAddr(addr, keys, addItemToMap)
SendResult(t) ==
    /\ pc[t] = "send"
    /\ Len(gm.ch) < buffered
    /\ gm' = [gm EXCEPT !.ch = Append(@, call[t].err), !.sent = @ \cup {call[t].err}]
    /\ pc' = [pc EXCEPT ![t] = "done"]
    /\ call' = [call EXCEPT ![t] = NoCall]
    /\ last' = NoLast
    /\ UNCHANGED <<freeconn, nc, cnAddr, deadline, cn, dial, kIn, kOut, srv>>

\* if ge := <-ch; ge != nil { err = ge }
keepErr_Overwrite(err, ge) == ge

keepErr(err, ge) == IF ge # Nil THEN ge ELSE err

\* One turn of the collecting loop.
GMRecv ==
    /\ gm.pc = "collect"
    /\ gm.n > 0
    /\ gm.ch # <<>>
    /\ gm' = [gm EXCEPT !.ch = Tail(@), !.n = @ - 1,
                        !.err = keepErr(@, Head(gm.ch))]
    /\ last' = NoLast
    /\ UNCHANGED <<freeconn, nc, cnAddr, deadline, pc, call, cn, dial, kIn, kOut, srv>>

\* Whether the collecting loop is over.
collected_AtFirstError == gm.n = 0 \/ gm.err # Nil

collected == gm.n = 0

\* return m, err
GMReturn ==
    /\ gm.pc = "collect"
    /\ collected
    /\ gm' = [gm EXCEPT !.pc = "done",
                        !.ret = [at |-> "collect", nilmap |-> FALSE, err |-> gm.err]]
    /\ last' = NoLast
    /\ UNCHANGED <<freeconn, nc, cnAddr, deadline, pc, call, cn, dial, kIn, kOut, srv>>

(***************************************************************************)
(* GetMulti with many buckets.  The retrieval of a bucket is taken to end  *)
(* with some result; what is followed is the channel: the sends of the     *)
(* tasks, which wait while the channel is full, and the collecting loop.   *)
(* Tasks are numbered in the order in which their retrievals end and in    *)
(* which they send.                                                        *)
(***************************************************************************)
Buckets == 1..MaxBuckets

\* The addresses the selector spreads the keys over.
BucketAddr ==
    <<"b1", "b2", "b3", "b4", "b5", "b6", "b7", "b8", "b9", "b10", "b11", "b12">>

\* The state GetMulti is in after it has launched one task for each of nb
\* addresses.
Launched(nb) ==
    /\ pc = [t \in Buckets |-> IF t <= nb THEN "launched" ELSE "ready"]
    /\ call = [t \in Buckets |->
                 IF t <= nb
                 THEN [op |-> "getFromAddr", keys |-> <<keyA>>, addr |-> BucketAddr[t],
                       idle |-> 0, err |-> Nil]
                 ELSE NoCall]
    /\ gm = [NoGM EXCEPT !.pc = "collect", !.n = collectTurns(nb), !.launched = 1..nb]

\* c.getFromAddr(addr, keys, addItemToMap) of task t returns err.
Retrieved(t, err) ==
    /\ pc[t] = "launched"
    /\ \A u \in Buckets : u < t => pc[u] # "launched"
    /\ pc' = [pc EXCEPT ![t] = "send"]
    /\ call' = [call EXCEPT ![t].err = err]
    /\ last' = NoLast
    /\ UNCHANGED <<freeconn, nc, cnAddr, deadline, cn, dial, gm, kIn, kOut, srv>>

BucketSend(t) ==
    /\ \A u \in Buckets : u < t => pc[u] # "send"
    /\ SendResult(t)

(***************************************************************************)
(* One caller against one server: the caller makes one call after the      *)
(* other, the server answers each request from the items it holds, and     *)
(* what an operation leaves unread on a connection is the first thing the  *)
(* next operation on that connection reads.                                *)
(***************************************************************************)
\* No operation is under way.
Quiet == \A t \in Tasks : pc[t] \in {"ready", "done"}

\* "z", "END\r\n"
valZ == <<122>>
valEnd == resultEnd

SetItems ==
    {[NoItem EXCEPT !.Key = keyA, !.Value = valBar, !.Flags = <<55>>],
     [NoItem EXCEPT !.Key = keyA, !.Value = valEnd, !.Flags = MaxUint32Digits],
     [NoItem EXCEPT !.Key = keyB, !.Value = <<>>],
     [NoItem EXCEPT !.Key = keyEmpty, !.Value = valBar]}

\* The items earlier Gets returned, with a new value: what the caller hands
\* to CompareAndSwap.
CasItems ==
    {[srv.hist[i].items[Len(srv.hist[i].items)] EXCEPT !.Value = valZ] :
        i \in {i \in 1..Len(srv.hist) : srv.hist[i].items # <<>>}}

\* The calls the caller may make next.
SrvCalls ==
    {<<"Get", [NoItem EXCEPT !.Key = keyA]>>, <<"Get", [NoItem EXCEPT !.Key = keyB]>>,
     <<"Delete", [NoItem EXCEPT !.Key = keyA]>>}
        \cup {<<"Set", it>> : it \in SetItems}
        \cup {<<"CompareAndSwap", it>> : it \in CasItems}

\* The bytes the operation of c writes for the item (or key) it was given.
RequestOf(c, item) ==
    IF c.op \in ItemOps THEN storeRequest(VerbOf(c.op), item)
    ELSE IF c.op = "Delete" THEN deleteRequest(c.keys[1])
    ELSE getsRequest(c.keys)

\* (The model has NumCalls connections: a call that would dial one more
\* is left out.)
SrvCall(op, item) ==
    /\ Len(srv.hist) < MaxOps
    /\ Len(freeconn["s1"]) > 0 \/ \E c \in Conns : nc[c] = "none"
    /\ Call(1, op, item.Key, [addr |-> "s1", err |-> Nil])
    /\ srv' = [srv EXCEPT !.arg = item]

\* The caller is back from a call and makes ready for the next.
Recall ==
    /\ pc[1] = "done"
    /\ pc' = [pc EXCEPT ![1] = "ready"]
    /\ last' = NoLast
    /\ UNCHANGED <<freeconn, nc, cnAddr, deadline, call, cn, dial, gm, kIn, kOut, srv>>

\* What the server does with the request of task t, if t writes one.
Served(t) ==
    IF RunFn(call[t], TRUE, Stream(<<>>)).wrote
    THEN Serve([store |-> srv.store, cas |-> srv.cas], RequestOf(call[t], srv.arg))
    ELSE [st |-> [store |-> srv.store, cas |-> srv.cas], resp |-> <<>>]

\* The exchange with the server on the other end.
SrvExchange(t) ==
    /\ pc[t] = "io"
    /\ \E a \in {Served(t)} :
       \E in \in {Stream(srv.rbuf[cn[t]] \o a.resp)} :
       \E r \in {RunFn(call[t], TRUE, in)} :
          /\ Exchange(t, TRUE, in)
          /\ srv' = [store |-> a.st.store, cas |-> a.st.cas,
                     rbuf |-> [srv.rbuf EXCEPT ![cn[t]] = r.rest],
                     arg |-> NoItem,
                     hist |-> Append(srv.hist,
                                 [op |-> call[t].op, key |-> call[t].keys[1],
                                  arg |-> srv.arg, err |-> FinalErr(call[t], r),
                                  items |-> r.items,
                                  had |-> /\ call[t].keys[1] \in SrvKeys
                                          /\ srv.store[call[t].keys[1]].present,
                                  cn |-> cn[t], idle |-> call[t].idle])]

\* The server drops an item to make room.
Evict(k) ==
    /\ Quiet
    /\ Len(srv.hist) < MaxOps
    /\ srv.store[k].present
    /\ srv' = [srv EXCEPT !.store[k] = NoEntry,
                          !.hist = Append(@, [op |-> "evict", key |-> k, arg |-> NoItem,
                                              err |-> Nil, items |-> <<>>, had |-> TRUE,
                                              cn |-> 0, idle |-> 0])]
    /\ last' = NoLast
    /\ UNCHANGED <<freeconn, nc, cnAddr, deadline, pc, call, cn, dial, gm, kIn, kOut>>

(***************************************************************************)
(* The key validator on its own.                                           *)
(***************************************************************************)
KeyLens == {0, 1, 2, 3, 249, 250, 251, 252}
KeyBytes == {0, 31, 32, 33, 126, 127, 128, 255}
KeyInputs ==
    {Rep(n, 97) : n \in KeyLens}
        \cup {[i \in 1..n |-> IF i = p THEN b ELSE 97] :
                 n \in KeyLens \ {0}, p \in {1, 2, 249, 250, 251}, b \in KeyBytes}

CheckKey ==
    /\ kOut = <<>>
    /\ kOut' = <<legalKey(kIn)>>
    /\ UNCHANGED <<freeconn, nc, cnAddr, deadline, pc, call, cn, dial, last, gm, kIn, srv>>

(***************************************************************************)
(* The specifications.                                                     *)
(***************************************************************************)
Init ==
    /\ freeconn = [a \in Addrs |-> <<>>]
    /\ nc = [c \in Conns |-> "none"]
    /\ cnAddr = [c \in Conns |-> NoAddr]
    /\ pc = [t \in Tasks |-> "ready"]
    /\ call = [t \in Tasks |-> NoCall]
    /\ cn = [t \in Tasks |-> 0]
    /\ dial = [t \in Tasks |-> NoDial]
    /\ last = NoLast
    /\ gm = NoGM
    /\ kIn = <<>>
    /\ kOut = <<>>
    /\ srv = NoSrv
    /\ deadline = [c \in Conns |-> 0]

SingleOps == KeyOps \cup ItemOps

\* Concurrent operations on one Client whose selector sends keyA to s1 and
\* "a b" to s2: Get of a legal key and Set of an illegal one, against a
\* server that answers or has closed the connection.
PoolCalls ==
    {<<"Get", keyA, [addr |-> "s1", err |-> Nil]>>,
     <<"Set", keySpace, [addr |-> "s2", err |-> Nil]>>}
PoolStreams(c) == {Stream(resultEnd), Closed(<<>>)}

Next ==
    \/ \E t \in Tasks, c \in PoolCalls : Call(t, c[1], c[2], c[3]) /\ UNCHANGED srv
    \/ \E t \in Tasks, ok \in BOOLEAN : DialRecv(t, ok)
    \/ \E t \in Tasks, ok \in BOOLEAN : NetDialReturns(t, ok)
    \/ \E t \in Tasks : DialTimeout(t)
    \/ \E t \in Tasks : LateRecv(t)
    \/ \E t \in Tasks :
          pc[t] = "io" /\ \E in \in PoolStreams(call[t]) : Exchange(t, TRUE, in) /\ UNCHANGED srv

Spec == Init /\ [][Next]_vars

\* Concurrent Gets of one key, where net.Dial returns in the end and the
\* goroutine left to take a late result is scheduled.
DialCalls == {<<"Get", keyA, [addr |-> "s1", err |-> Nil]>>}

DialNext ==
    \/ \E t \in Tasks, c \in DialCalls : Call(t, c[1], c[2], c[3]) /\ UNCHANGED srv
    \/ \E t \in Tasks, ok \in BOOLEAN : DialRecv(t, ok)
    \/ \E t \in Tasks, ok \in BOOLEAN : NetDialReturns(t, ok)
    \/ \E t \in Tasks : DialTimeout(t)
    \/ \E t \in Tasks : LateRecv(t)
    \/ \E t \in Tasks :
          pc[t] = "io" /\ \E in \in PoolStreams(call[t]) : Exchange(t, TRUE, in) /\ UNCHANGED srv

DialSpec ==
    /\ Init /\ [][DialNext]_vars
    /\ \A t \in Tasks :
          /\ WF_vars(\E ok \in BOOLEAN : NetDialReturns(t, ok))
          /\ WF_vars(LateRecv(t))

\* Every single-key operation with every sample key and answer, one
\* operation at a time.
OpsNext ==
    \/ \E t \in Tasks, op \in SingleOps, key \in SampleKeys, sel \in SelectorResults :
          Quiet /\ Call(t, op, key, sel) /\ UNCHANGED srv
    \/ \E t \in Tasks, ok \in BOOLEAN : DialRecv(t, ok)
    \/ \E t \in Tasks :
          pc[t] = "io" /\ \E wok \in BOOLEAN, in \in StreamsOf(call[t]) : Exchange(t, wok, in)
             /\ UNCHANGED srv

OpsSpec == Init /\ [][OpsNext]_vars

\* Operations one after the other, among them those that end before they
\* hold a connection: an illegal key, a selector that fails, a dial that
\* fails or takes too long, a GetMulti that returns from its loop over the
\* keys.  A Get that is answered leaves its connection idle.  FrameCalls
\* single-key operations are made.
FrameKeys == {keyA, keySpace}
FrameTasks == 1..FrameCalls

FrameNext ==
    \/ \E t \in FrameTasks, op \in SingleOps, key \in FrameKeys, sel \in SelectorResults :
          Quiet /\ Call(t, op, key, sel) /\ UNCHANGED srv
    \/ \E t \in FrameTasks, ok \in BOOLEAN : DialRecv(t, ok)
    \/ \E t \in FrameTasks : DialTimeout(t)
    \/ \E t \in FrameTasks, ok \in BOOLEAN : NetDialReturns(t, ok)
    \/ \E t \in FrameTasks : LateRecv(t)
    \/ \E t \in FrameTasks :
          pc[t] = "io" /\ \E in \in PoolStreams(call[t]) : Exchange(t, TRUE, in) /\ UNCHANGED srv
    \/ \E keys \in KeyLists : \E sels \in [1..Len(keys) -> SelectorResults] :
          Quiet /\ FirstBad(keys, sels) # 0 /\ GMCall(keys, sels)

FrameSpec == Init /\ [][FrameNext]_vars

\* One GetMulti call.
MultiNext ==
    \/ \E keys \in KeyLists : \E sels \in [1..Len(keys) -> SelectorResults] : GMCall(keys, sels)
    \/ \E t \in Tasks : SubStart(t)
    \/ \E t \in Tasks, ok \in BOOLEAN : DialRecv(t, ok)
    \/ \E t \in Tasks, ok \in BOOLEAN : NetDialReturns(t, ok)
    \/ \E t \in Tasks : DialTimeout(t)
    \/ \E t \in Tasks : LateRecv(t)
    \/ \E t \in Tasks :
          pc[t] = "io" /\ \E wok \in BOOLEAN, in \in StreamsOf(call[t]) : Exchange(t, wok, in)
             /\ UNCHANGED srv
    \/ \E t \in Tasks : SendResult(t)
    \/ GMRecv
    \/ GMReturn

MultiSpec == Init /\ [][MultiNext]_vars

\* GetMulti of keys that the selector spreads over up to MaxBuckets
\* addresses; every scheduled step is taken in the end.
BucketInit ==
    /\ Init!1 /\ Init!2 /\ Init!3 /\ Init!6 /\ Init!7 /\ Init!8
    /\ Init!10 /\ Init!11 /\ Init!12 /\ Init!13
    /\ \E nb \in 0..MaxBuckets : Launched(nb)

BucketNext ==
    \/ \E t \in Buckets, err \in {Nil, ErrIO("EOF")} : Retrieved(t, err)
    \/ \E t \in Buckets : BucketSend(t)
    \/ GMRecv
    \/ GMReturn

BucketSpec ==
    /\ BucketInit /\ [][BucketNext]_vars
    /\ WF_vars(\E t \in Buckets, err \in {Nil, ErrIO("EOF")} : Retrieved(t, err))
    /\ WF_vars(\E t \in Buckets : BucketSend(t))
    /\ WF_vars(GMRecv)
    /\ WF_vars(GMReturn)

\* legalKey applied to a key.
KeyInit ==
    /\ Init!1 /\ Init!2 /\ Init!3 /\ Init!4 /\ Init!5 /\ Init!6 /\ Init!7 /\ Init!8 /\ Init!9
    /\ kIn \in KeyInputs
    /\ kOut = <<>>
    /\ srv = NoSrv
    /\ Init!13

KeySpec == KeyInit /\ [][CheckKey]_vars

\* One caller, one server that holds keyA or nothing at first.
SrvInit ==
    /\ Init!1 /\ Init!2 /\ Init!3 /\ Init!4 /\ Init!5 /\ Init!6 /\ Init!7 /\ Init!8 /\ Init!9
    /\ Init!10 /\ Init!11 /\ Init!13
    /\ srv \in {NoSrv,
                [NoSrv EXCEPT !.store[keyA] = [present |-> TRUE, Value |-> valBar,
                                               Flags |-> <<53>>, cas |-> 1],
                              !.cas = 2]}

SrvNext ==
    \/ \E c \in SrvCalls : SrvCall(c[1], c[2])
    \/ Recall
    \/ \E ok \in BOOLEAN : DialRecv(1, ok)
    \/ SrvExchange(1)
    \/ \E k \in SrvKeys : Evict(k)

ServerSpec == SrvInit /\ [][SrvNext]_vars

(***************************************************************************)
(* Properties.                                                             *)
(***************************************************************************)
InIdle(c) == \E a \in Addrs : \E i \in 1..Len(freeconn[a]) : freeconn[a][i] = c

Resumable == {ErrCacheMiss, ErrCASConflict, ErrNotStored, ErrMalformedKey}

\* C1: under any interleaving of concurrent operations the idle list of each
\* address holds at most 2 connections, and a putFreeConn on an address
\* whose list already holds 2 closes the transport of the returned
\* connection and leaves the list unchanged.
IdleBound ==
    /\ [](\A a \in Addrs : Len(freeconn[a]) <= 2)
    /\ [][last'.disp \in {"pooled", "dropped"} /\ Len(freeconn[last'.addr]) >= 2
            => /\ nc'[last'.cn] = "closed"
               /\ last'.disp = "dropped"
               /\ freeconn' = freeconn]_vars

IdleBoundWitness ==
    /\ last.disp = "dropped"
    /\ Len(freeconn[last.addr]) = 2
    /\ nc[last.cn] = "closed"

\* C2: no connection is held by two in-flight operations, none is both held
\* by an operation and present in an idle list, and none appears twice in
\* the idle lists.
ExclusiveOwner ==
    /\ \A t \in Tasks : \A u \in Tasks : (t # u /\ cn[t] # 0) => cn[t] # cn[u]
    /\ \A t \in Tasks : cn[t] # 0 => ~InIdle(cn[t])
    /\ \A a \in Addrs : \A b \in Addrs :
          \A i \in 1..Len(freeconn[a]) : \A j \in 1..Len(freeconn[b]) :
             (a # b \/ i # j) => freeconn[a][i] # freeconn[b][j]

\* Two operations hold connections of one address, one of them taken from
\* the idle list.
ExclusiveOwnerWitness ==
    \E t \in Tasks : \E u \in Tasks :
       /\ t # u
       /\ pc[t] = "io" /\ pc[u] = "io"
       /\ call[t].idle > 0
       /\ cnAddr[cn[t]] = cnAddr[cn[u]]

\* C3: when an operation that acquired a connection ends, the connection
\* goes to putFreeConn iff the final error is nil, ErrCacheMiss,
\* ErrCASConflict, ErrNotStored or ErrMalformedKey; otherwise its transport
\* is closed and it is in no idle list.  For an operation run alone the idle
\* count of its address is then higher by 0 or 1 than at the call after a
\* nil or resumable result, and not higher after another error.
ReleaseIffResumable ==
    (last.cn # 0 /\ ~last.panic) =>
        LET put == last.disp \in {"pooled", "dropped"}
            d == Len(freeconn[last.addr]) - last.idle
        IN  /\ put <=> (last.err = Nil \/ last.err \in Resumable)
            /\ put => d \in {0, 1}
            /\ ~put => /\ nc[last.cn] = "closed"
                       /\ ~InIdle(last.cn)
                       /\ d <= 0

\* An operation that took the idle connection of its address ends with an
\* error that is not resumable: the connection is closed, the list empty.
ReleaseIffResumableWitness ==
    /\ last.cn # 0
    /\ last.idle = 1
    /\ last.err = ErrUnexpectedLine
    /\ last.disp = "closed"
    /\ freeconn[last.addr] = <<>>

\* C4: legalKey(k) is false iff len(k) = 0, or len(k) > 250, or some byte of
\* k is <= 0x20 or > 0x7E.
legalKeyAsSpecified ==
    kOut # <<>> =>
        (kOut[1] = FALSE <=>
            \/ Len(kIn) = 0
            \/ Len(kIn) > 250
            \/ \E i \in 1..Len(kIn) : kIn[i] <= 32 \/ kIn[i] > 126)

\* C5: a public operation given a key for which legalKey is false returns
\* ErrMalformedKey without acquiring a connection: it pops no idle
\* connection and starts no dial.
IllegalKeyFailsFirst ==
    /\ \A t \in Tasks : pc[t] \in {"dial", "io"} => legalKey(call[t].keys[1])
    /\ (last.op \in SingleOps /\ ~legalKey(last.keys[1]))
          => (last.err = ErrMalformedKey /\ last.cn = 0)

\* C6 as stated: the map GetMulti returns is non-nil on every return.
MapNeverNil == gm.pc = "done" => ~gm.ret.nilmap

\* C6: the map GetMulti returns is nil exactly on the returns from the loop
\* over the keys (an illegal key: ErrMalformedKey; a selector error: that
\* error), and non-nil on every return after the tasks were launched, a
\* failed task included.
MapNilOnEarlyReturn ==
    gm.pc = "done" =>
        /\ gm.ret.nilmap <=> gm.ret.at \in {"key", "selector"}
        /\ gm.ret.at = "key" => gm.ret.err = ErrMalformedKey
        /\ gm.ret.at = "selector" => gm.ret.err = ErrNoServers
        /\ gm.ret.at = "collect" => gm.launched # {} \/ gm.ret.err = Nil

MapNilOnEarlyReturnWitness ==
    /\ gm.pc = "done"
    /\ gm.ret.nilmap
    /\ gm.ret.at = "selector"

\* C7: when GetMulti returns after launching its tasks every task has
\* finished, the map holds every item a task passed to the callback (one
\* item per key), also when a task failed, and the map is not written after
\* the return.
AllCollected ==
    /\ [](gm.pc = "done" /\ gm.ret.at = "collect" =>
            /\ \A t \in gm.launched : pc[t] = "done"
            /\ \A it \in gm.delivered : \E x \in gm.m : x.Key = it.Key
            /\ gm.m \subseteq gm.delivered)
    /\ [][gm.pc = "done" => gm'.m = gm.m]_vars

\* A return with an error and with the items of the task that succeeded.
AllCollectedWitness ==
    /\ gm.pc = "done"
    /\ gm.ret.at = "collect"
    /\ gm.ret.err # Nil
    /\ gm.m # {}
    /\ Cardinality(gm.launched) = 2

\* C8: once all keys are validated and routed, the error GetMulti returns is
\* non-nil iff some task returned a non-nil error, and is then the error of
\* one of the tasks.
AggregateError ==
    (gm.pc = "done" /\ gm.ret.at = "collect") =>
        /\ gm.ret.err # Nil <=> \E e \in gm.sent : e # Nil
        /\ gm.ret.err # Nil => gm.ret.err \in gm.sent

\* One task failed and another did not.
AggregateErrorWitness ==
    /\ gm.pc = "done"
    /\ gm.ret.at = "collect"
    /\ gm.ret.err # Nil
    /\ Nil \in gm.sent

\* C9: if the timer fires before the dial delivers, the caller gets
\* ConnectTimeoutError for the address and no connection; a transport the
\* dial produces later is never held by an operation nor idle, it is closed
\* in the end, and the dial goroutine does not stay blocked on its send.
LostDialClosed ==
    /\ [][\A t \in Tasks :
            (pc[t] = "dial" /\ pc'[t] # "dial" /\ dial'[t].st = "running")
               => /\ last'.err = ConnectTimeoutError(dial[t].addr)
                  /\ last'.cn = 0
                  /\ cn'[t] = 0]_vars
    /\ [](\A t \in Tasks : dial[t].nc # 0 =>
            /\ \A u \in Tasks : cn[u] # dial[t].nc
            /\ ~InIdle(dial[t].nc)
            /\ dial[t].st = "done" => nc[dial[t].nc] = "closed")
    /\ \A t \in Tasks :
          (pc[t] # "dial" /\ dial[t].st \in {"running", "sendOK", "sendErr"})
             ~> (dial[t].st = "done")

\* A dial that lost the race produced a transport, and it is closed.
LostDialClosedWitness ==
    \E t \in Tasks :
       /\ dial[t].st = "done"
       /\ dial[t].nc # 0
       /\ nc[dial[t].nc] = "closed"

\* The first line of the answer: the bytes up to the first LF.
ResponseLine(b) ==
    IF \E n \in 1..Len(b) : b[n] = 10
    THEN SubSeq(b, 1, CHOOSE n \in 1..Len(b) : b[n] = 10 /\ \A m \in 1..(n - 1) : b[m] # 10)
    ELSE <<>>

\* C10: set, add and cas read exactly one response line: STORED gives nil,
\* NOT_STORED ErrNotStored, EXISTS ErrCASConflict, NOT_FOUND ErrCacheMiss,
\* and anything else a non-resumable error, after which the connection is
\* closed and not pooled.
StoreClassified ==
    (last.op \in ItemOps /\ last.cn # 0 /\ last.wrote) =>
        LET line == ResponseLine(last.in)
        IN  /\ last.reads = 1
            /\ CASE line = <<83, 84, 79, 82, 69, 68, 13, 10>> -> last.err = Nil
                 [] line = <<78, 79, 84, 95, 83, 84, 79, 82, 69, 68, 13, 10>> ->
                        last.err = ErrNotStored
                 [] line = <<69, 88, 73, 83, 84, 83, 13, 10>> -> last.err = ErrCASConflict
                 [] line = <<78, 79, 84, 95, 70, 79, 85, 78, 68, 13, 10>> ->
                        last.err = ErrCacheMiss
                 [] OTHER -> /\ last.err # Nil
                             /\ last.err \notin Resumable
                             /\ last.disp = "closed"
                             /\ nc[last.cn] = "closed"
                             /\ ~InIdle(last.cn)

\* cas is answered "ERROR": the connection is closed.
StoreClassifiedWitness ==
    /\ last.op = "CompareAndSwap"
    /\ last.wrote
    /\ last.in = lineError
    /\ last.disp = "closed"

\* C11: Get of a legal key whose response reaches END without error returns
\* ErrCacheMiss iff no VALUE record came before END, and otherwise an item
\* (the last one delivered) with a nil error.
GetMissIffNoValue ==
    (last.op = "Get" /\ last.cn # 0 /\ last.relErr = Nil /\ ~last.panic) =>
        IF ResponseLine(last.in) = <<69, 78, 68, 13, 10>>
        THEN last.err = ErrCacheMiss /\ last.items = <<>>
        ELSE last.err = Nil /\ last.items # <<>>

\* A Get answered with two records and END.
GetMissIffNoValueWitness ==
    /\ last.op = "Get"
    /\ last.err = Nil
    /\ Len(last.items) = 2
    /\ last.disp = "pooled"

\* The calls of the caller so far, and what an entry of them is.
Hist == srv.hist

GotItem(e) == e.op = "Get" /\ e.err = Nil /\ e.items # <<>>

ItemOf(e) == e.items[Len(e.items)]

\* e is CompareAndSwap of the item the Get g returned, whatever its value now
CasOf(e, g) ==
    /\ e.op = "CompareAndSwap"
    /\ e.key = g.key
    /\ e.arg.Key = ItemOf(g).Key
    /\ e.arg.casid = ItemOf(g).casid

\* C12: against a server with memcached's cas: after g1 = Get(k), g2 =
\* Get(k) with no write in between, CompareAndSwap(g1) succeeds and a
\* following CompareAndSwap(g2) returns ErrCASConflict; if k is deleted
\* between the Get and the CompareAndSwap, CompareAndSwap returns
\* ErrCacheMiss.
CasAfterGets ==
    \A i \in 1..Len(Hist) :
       /\ (/\ i + 3 <= Len(Hist)
           /\ GotItem(Hist[i]) /\ GotItem(Hist[i + 1])
           /\ Hist[i].key = Hist[i + 1].key
           /\ CasOf(Hist[i + 2], Hist[i])
           /\ CasOf(Hist[i + 3], Hist[i + 1]))
             => (Hist[i + 2].err = Nil /\ Hist[i + 3].err = ErrCASConflict)
       /\ (/\ i + 2 <= Len(Hist)
           /\ GotItem(Hist[i])
           /\ Hist[i + 1].op = "Delete" /\ Hist[i + 1].key = Hist[i].key
           /\ Hist[i + 1].err = Nil
           /\ CasOf(Hist[i + 2], Hist[i]))
             => Hist[i + 2].err = ErrCacheMiss

\* Get, Get, CompareAndSwap of the first item, CompareAndSwap of the second.
CasAfterGetsWitness ==
    /\ Len(Hist) = 4
    /\ GotItem(Hist[1]) /\ GotItem(Hist[2])
    /\ CasOf(Hist[3], Hist[1]) /\ CasOf(Hist[4], Hist[2])
    /\ Hist[4].err = ErrCASConflict

\* C13: CompareAndSwap returns ErrNotStored when the value was evicted
\* between the Get and the CompareAndSwap, and ErrCASConflict when it was
\* modified in between.
CasEvictedNotStored ==
    \A i \in 1..Len(Hist) :
       (i + 2 <= Len(Hist) /\ GotItem(Hist[i]) /\ Hist[i + 1].key = Hist[i].key
          /\ CasOf(Hist[i + 2], Hist[i]))
         => /\ Hist[i + 1].op = "evict" => Hist[i + 2].err = ErrNotStored
            /\ (Hist[i + 1].op = "Set" /\ Hist[i + 1].err = Nil)
                  => Hist[i + 2].err = ErrCASConflict

\* No entry of i+1..j-1 changes what the server holds for key k.
NoWriteBetween(i, j, k) ==
    \A m \in (i + 1)..(j - 1) : Hist[m].key # k \/ Hist[m].op = "Get"

\* C14: after Set(item) returns nil, a following Get(item.Key) with no
\* write to that key in between returns an item whose Value and Flags are
\* the stored ones, also when it reuses the connection the Set released.
GetAfterSet ==
    \A i \in 1..Len(Hist) : \A j \in 1..Len(Hist) :
       (/\ i < j
        /\ Hist[i].op = "Set" /\ Hist[i].err = Nil
        /\ Hist[j].op = "Get" /\ Hist[j].key = Hist[i].key
        /\ NoWriteBetween(i, j, Hist[i].key))
          => /\ Hist[j].err = Nil
             /\ Hist[j].items # <<>>
             /\ ItemOf(Hist[j]).Key = Hist[i].arg.Key
             /\ ItemOf(Hist[j]).Value = Hist[i].arg.Value
             /\ ItemOf(Hist[j]).Flags = Hist[i].arg.Flags

\* Set of the value "END\r\n", then Get on the connection the Set released.
GetAfterSetWitness ==
    \E i \in 1..Len(Hist) :
       /\ i + 1 <= Len(Hist)
       /\ Hist[i].op = "Set" /\ Hist[i].err = Nil /\ Hist[i].arg.Value = valEnd
       /\ Hist[i + 1].op = "Get" /\ Hist[i + 1].err = Nil
       /\ Hist[i + 1].cn = Hist[i].cn
       /\ Hist[i + 1].idle = 1

\* C15: Delete of a key absent on the server returns ErrCacheMiss; Delete of
\* a present key returns nil, and a following Get of that key, with no
\* write in between, returns ErrCacheMiss.
DeleteThenMiss ==
    \A i \in 1..Len(Hist) :
       Hist[i].op = "Delete" =>
          /\ Hist[i].err = (IF Hist[i].had THEN Nil ELSE ErrCacheMiss)
          /\ \A j \in 1..Len(Hist) :
                (/\ i < j /\ Hist[i].had
                 /\ Hist[j].op = "Get" /\ Hist[j].key = Hist[i].key
                 /\ NoWriteBetween(i, j, Hist[i].key))
                   => (Hist[j].err = ErrCacheMiss /\ Hist[j].items = <<>>)

\* Delete of a present key, Get, Delete again.
DeleteThenMissWitness ==
    \E i \in 1..Len(Hist) :
       /\ i + 2 <= Len(Hist)
       /\ Hist[i].op = "Delete" /\ Hist[i].had /\ Hist[i].err = Nil
       /\ Hist[i + 1].op = "Get" /\ Hist[i + 1].err = ErrCacheMiss
       /\ Hist[i + 2].op = "Delete" /\ Hist[i + 2].err = ErrCacheMiss

\* A line without its line end.
LineBody(line) ==
    IF Len(line) >= 2 /\ line[Len(line) - 1] = 13 THEN SubSeq(line, 1, Len(line) - 2)
    ELSE SubSeq(line, 1, Len(line) - 1)

\* C16: for Increment and Decrement the response line is classified:
\* NOT_FOUND gives ErrCacheMiss; a line that begins with "CLIENT_ERROR "
\* gives a client error whose message is the rest of the line up to its end;
\* any other line is parsed as a decimal unsigned 64-bit number, which is the
\* new value, with an error if it is no such number.
IncrClassified ==
    (last.op \in {"Increment", "Decrement"} /\ last.cn # 0 /\ last.wrote
        /\ ResponseLine(last.in) # <<>>) =>
        LET line == ResponseLine(last.in)
            body == LineBody(line)
        IN  /\ ~last.panic
            /\ IF line = <<78, 79, 84, 95, 70, 79, 85, 78, 68, 13, 10>>
               THEN last.err = ErrCacheMiss
               ELSE IF Len(line) >= 13
                       /\ SubSeq(line, 1, 13)
                            = <<67, 76, 73, 69, 78, 84, 95, 69, 82, 82, 79, 82, 32>>
               THEN last.err = ErrClientError /\ last.msg = SubSeq(body, 14, Len(body))
               ELSE IF IsDigits(body) /\ DigitsLeq(StripZeros(body), MaxUint64Digits)
               THEN last.err = Nil /\ last.val = StripZeros(body)
               ELSE last.err # Nil /\ last.err \notin Resumable

\* The VALUE records at the head of the bytes b that are complete: the header
\* scans, its declared size n is followed by n bytes and CRLF.  cut says that
\* the record after them has a header that scans and is not complete.
RECURSIVE CompleteRecords(_)
CompleteRecords(b) ==
    LET r == ReadSlice(Stream(b))
        h == scanGetResponseLine(r.line)
    IN  IF r.err # Nil \/ r.line = resultEnd \/ h.err # Nil THEN [n |-> 0, cut |-> FALSE]
        ELSE IF h.size >= 0 /\ Len(r.rest.bytes) >= h.size + 2
                /\ SubSeq(r.rest.bytes, h.size + 1, h.size + 2) = crlf
        THEN LET m == CompleteRecords(Drop(r.rest.bytes, h.size + 2))
             IN  [n |-> 1 + m.n, cut |-> m.cut]
        ELSE [n |-> 0, cut |-> TRUE]

\* C17: a VALUE record of declared size n is delivered to the callback only
\* if n+2 bytes were read after its header and the last two are CRLF; for a
\* record that is not so, a stream that ends early included, no item is
\* delivered, the operation fails with an error that is not resumable, and
\* the connection is closed.
ValueRecordExact ==
    (last.op = "Get" /\ last.cn # 0 /\ last.wrote) =>
        LET c == CompleteRecords(last.in)
        IN  /\ Len(last.items) <= c.n
            /\ c.cut => /\ last.err # Nil
                        /\ last.err \notin Resumable
                        /\ last.disp = "closed"

\* C18: the pool mutex is held only while an idle list is read or changed:
\* no task makes an operation on a transport (dial, read, write, set
\* deadline, close) while it holds the lock.
NoTransportUnderLock == last.underLock = {}

\* C19: the deadline of a connection is set exactly once per acquisition,
\* when it is popped from the idle list and when it is freshly dialed, before
\* any request is written, and not again until the release; a response whose
\* reads run past that deadline fails and the connection is closed.
DeadlineOncePerAcquisition ==
    /\ \A t \in Tasks : pc[t] = "io" => deadline[cn[t]] = 1
    /\ last.cn # 0 => last.deadlines = 1
    /\ (last.cn # 0 /\ last.wrote /\ last.end = "timeout" /\ ResponseLine(last.in) = <<>>) =>
           /\ last.relErr = ErrIO("timeout")
           /\ last.disp = "closed"
           /\ nc[last.cn] = "closed"

\* A connection popped from the idle list, whose answer did not come before
\* the deadline.
DeadlineOncePerAcquisitionWitness ==
    /\ last.cn # 0 /\ last.idle > 0
    /\ last.wrote /\ last.end = "timeout" /\ ResponseLine(last.in) = <<>>
    /\ last.deadlines = 1
    /\ last.disp = "closed"

\* C20: getConn(addr) with a non-empty idle list for addr returns the
\* connection most recently put on that list, removes exactly that
\* connection, starts no dial, and leaves the idle lists of the other
\* addresses unchanged.
PopNewest ==
    [][\A t \in Tasks :
          (/\ pc[t] \in {"ready", "launched"}
           /\ pc'[t] \in {"io", "dial"}
           /\ Len(freeconn[call'[t].addr]) > 0) =>
              LET a == call'[t].addr
                  n == Len(freeconn[a])
              IN  /\ pc'[t] = "io"
                  /\ cn'[t] = freeconn[a][n]
                  /\ freeconn'[a] = SubSeq(freeconn[a], 1, n - 1)
                  /\ \A b \in Addrs \ {a} : freeconn'[b] = freeconn[b]
                  /\ dial' = dial
                  /\ nc' = nc]_vars

\* A task has taken the newer of two idle connections of its address.
PopNewestWitness ==
    \E t \in Tasks :
        /\ pc[t] = "io"
        /\ call[t].idle = 2
        /\ Len(freeconn[call[t].addr]) = 1
        /\ freeconn[call[t].addr][1] # cn[t]

\* A task that dials can take the result of its dial, whatever the other
\* tasks do.
NotBlocked ==
    \A t \in Tasks : (pc[t] = "dial" /\ dial[t].st = "running") => ENABLED DialRecv(t, TRUE)

\* C21: no operation waits for a connection that another operation holds:
\* an operation that finds the idle list of its address empty starts a dial
\* of its own, whatever the other tasks hold or dial, and can always take
\* the result of that dial.  The open connections of one address are not
\* capped: only the idle list is.
NoWaiting ==
    [][/\ \A t \in Tasks :
             (/\ pc[t] \in {"ready", "launched"}
              /\ pc'[t] \in {"io", "dial"}
              /\ Len(freeconn[call'[t].addr]) = 0) =>
                 /\ pc'[t] = "dial"
                 /\ dial'[t].st = "running"
                 /\ dial'[t].addr = call'[t].addr
                 /\ cn' = cn
       /\ NotBlocked'
       /\ NotBlocked]_vars

\* Three operations hold a connection of the same address at once, each
\* dialed while the idle list was empty: more open connections than the
\* idle list may keep.
NoWaitingWitness ==
    \E a \in Addrs :
        /\ \A t \in Tasks : pc[t] = "io" /\ cnAddr[cn[t]] = a /\ call[t].idle = 0
        /\ Cardinality({cn[t] : t \in Tasks}) = NumCalls
        /\ \A t \in Tasks : nc[cn[t]] = "open"
        /\ NumCalls > maxIdleConnsPerAddr

\* C22: with a server that answers every request with a well-formed
\* response, every connection in an idle list is at a request boundary: no
\* byte of an earlier response is unread on it, so the first bytes the next
\* operation reads on it are those of its own response.
IdleAtBoundary ==
    /\ \A a \in Addrs : \A i \in 1..Len(freeconn[a]) : srv.rbuf[freeconn[a][i]] = <<>>
    /\ \A t \in Tasks : pc[t] = "io" => srv.rbuf[cn[t]] = <<>>

\* A connection is idle again after a Get that read a VALUE record and END
\* on it and a later operation that took it from the idle list, while
\* another connection was closed with an answer half read.
IdleAtBoundaryWitness ==
    /\ \E i \in 1..(Len(Hist) - 1) :
          /\ Hist[i].op = "Get" /\ Hist[i].items # <<>>
          /\ Hist[i + 1].idle > 0 /\ Hist[i + 1].cn = Hist[i].cn
          /\ InIdle(Hist[i].cn)
    /\ \E c \in Conns : nc[c] = "closed" /\ srv.rbuf[c] # <<>>

\* C23: for any number of buckets, more than the channel's buffer of 8
\* included, if every retrieval ends then GetMulti returns; by then the
\* collector has received one result for each bucket, the channel is empty
\* and no task is left waiting to send.
GetMultiTerminates ==
    /\ <>(gm.pc = "done")
    /\ [](gm.pc = "done" =>
             /\ gm.n = 0
             /\ gm.ch = <<>>
             /\ \A t \in gm.launched : pc[t] = "done")
    /\ [][gm'.n # gm.n => (gm'.n = gm.n - 1 /\ gm.ch # <<>> /\ gm'.ch = Tail(gm.ch))]_vars

\* More buckets than the buffer holds: the channel is full and a task
\* waits to send.
GetMultiTerminatesWitness ==
    /\ Cardinality(gm.launched) > buffered
    /\ Len(gm.ch) = buffered
    /\ \E t \in gm.launched : pc[t] = "send"

\* The places of connection c in the idle lists.
IdlePlaces(c) == {p \in Addrs \X Conns : p[2] <= Len(freeconn[p[1]]) /\ freeconn[p[1]][p[2]] = c}

\* C24: every connection an operation acquires is disposed of exactly once
\* when the operation ends, on every path: either it is appended to the idle
\* list of the address it was dialed for, or its transport is closed, never
\* both and never neither; so no closed connection is in an idle list.
DisposedOnce ==
    /\ [][\A t \in Tasks :
             (cn[t] # 0 /\ cn'[t] = 0) =>
                 LET c == cn[t]
                     a == cnAddr[c]
                 IN  \/ /\ nc'[c] = "open"
                        /\ freeconn' = [freeconn EXCEPT ![a] = Append(@, c)]
                     \/ /\ nc'[c] = "closed"
                        /\ freeconn' = freeconn]_vars
    /\ [](\A c \in Conns :
             /\ InIdle(c) => /\ nc[c] = "open"
                             /\ \A p \in IdlePlaces(c) : p[1] = cnAddr[c]
                             /\ Cardinality(IdlePlaces(c)) = 1
                             /\ \A t \in Tasks : cn[t] # c
             /\ nc[c] = "open" =>
                   \/ InIdle(c)
                   \/ \E t \in Tasks : cn[t] = c
                   \/ \E t \in Tasks : dial[t].st = "sendOK" /\ dial[t].nc = c)

\* An operation whose request could not be written has ended: its
\* connection is closed and in no idle list, while the connection of an
\* earlier operation is idle.
DisposedOnceWitness ==
    /\ last.cn # 0 /\ ~last.wrote /\ last.relErr = ErrWrite
    /\ nc[last.cn] = "closed" /\ ~InIdle(last.cn)
    /\ \E c \in Conns : InIdle(c)

\* C25: for every response line the server can send to incr or decr, any
\* bytes that end in a line feed, incrDecr returns a value or an error: it
\* never aborts with a slice out of range, and the connection is released
\* or closed.
IncrNeverAborts ==
    (last.op \in {"Increment", "Decrement"} /\ last.cn # 0 /\ last.wrote
        /\ ResponseLine(last.in) # <<>>) =>
        /\ ~last.panic
        /\ last.disp \in {"pooled", "dropped", "closed"}

\* C26: an operation that ends before it holds a connection (an illegal
\* key in Get, Delete, Increment, Decrement or GetMulti, a selector error,
\* a dial error, a connect timeout) leaves every idle list unchanged and
\* closes no pooled connection.
NoConnNoEffect ==
    [][(\/ \E t \in Tasks : pc'[t] # pc[t] /\ cn[t] = 0 /\ cn'[t] = 0
        \/ gm.pc = "ready" /\ gm'.pc = "done") =>
           /\ freeconn' = freeconn
           /\ \A c \in Conns : InIdle(c) => nc'[c] = "open"]_vars

\* A dial took too long while a connection of another address was idle.
NoConnNoEffectWitness ==
    /\ last.op # "" /\ last.cn = 0
    /\ last.err = ConnectTimeoutError(last.addr)
    /\ \E a \in Addrs \ {last.addr} : Len(freeconn[a]) > 0
====
